---- MODULE Spec2Model ----
(***************************************************************************)
(* ReguBot (src/app.py): the upload-state file, the query classifier, the  *)
(* citation validator, the Gemini client and the Streamlit handlers that   *)
(* drive them.                                                             *)
(*                                                                         *)
(* A Python str is a sequence of one-character strings, so that lower(),   *)
(* strip(), the `in` substring test, str.replace and the citation regular  *)
(* expression work on characters as they do in the code.  Characters       *)
(* outside ASCII (the emoji of the user-visible messages) are written as    *)
(* bracketed ASCII marks such as "[x]".                                     *)
(***************************************************************************)
EXTENDS Naturals, Integers, Sequences, FiniteSets, TLC

VARIABLES
  EXCLUDED_REGULATIONS,  \* Config.EXCLUDED_REGULATIONS: the operator's list, fixed per run
  question,              \* determine_context: its question argument
  state,                 \* determine_context: its state argument (the loaded dict)
  uploaded,              \* determine_context: the list get_uploaded_regulations returned
  context,               \* determine_context: the QueryContext returned
  cpc,                   \* determine_context: "start" before the call, "done" after
  response_text,         \* validate: its argument
  cleaned,               \* validate: the text returned
  calls,                 \* validate: the calls of replacer made, in order
  vpc,                   \* validate: "start" before the call, "done" after
  api_prompt,            \* call_api: its prompt argument
  api_reply,             \* call_api: what the service does with the request
  api_result,            \* call_api: the value returned or the exception raised
  apc,                   \* call_api: "start" before the call, "done" after
  stateFile,             \* Config.STATE_FILE on disk
  new_file_names,        \* save_state: the argument of the last call
  passed,                \* the names passed to save_state since the last clear_state
  pc,                    \* per session: "idle", or where its save_state stands
  pending,               \* per session: the list its save_state is about to dump
  notice,                \* per session: what the Proses button last reported
  messages,              \* per session: st.session_state.messages
  last,                  \* per session: what the chat handler did with the last question
  chunking,              \* create_chunks: its arguments, the outcome, and "start" or "done"
  prompting,             \* build_prompt: its arguments, the prompt returned, and "start" or "done"
  overlapped             \* history: a save_state call began while another session's was under way

(***************************************************************************)
(* Bounds of the model.                                                    *)
(***************************************************************************)
MaxQLen == 4
MaxFiles == 2
MaxParts == 2
MaxBatch == 2
MaxQuestions == 1
MaxChunk == 3
MaxPromptQLen == 2
MaxChat == 2

(***************************************************************************)
(* Python str and list helpers.                                            *)
(***************************************************************************)
Range(a, b) == a .. (b - 1)

RECURSIVE Flatten(_)
Flatten(ss) == IF ss = <<>> THEN <<>> ELSE Head(ss) \o Flatten(Tail(ss))

SeqsUpTo(S, n) == UNION {[1 .. k -> S] : k \in 0 .. n}

Elems(s) == {s[i] : i \in 1 .. Len(s)}

\* s[i:i+len(w)] == w
StartsWithAt(s, i, w) ==
  /\ i >= 1
  /\ i + Len(w) - 1 <= Len(s)
  /\ SubSeq(s, i, i + Len(w) - 1) = w

\* `w in s` for two str
StrContains(s, w) == \E i \in 1 .. (Len(s) + 1) : StartsWithAt(s, i, w)

UPPERCASE ==
  <<"A","B","C","D","E","F","G","H","I","J","K","L","M",
    "N","O","P","Q","R","S","T","U","V","W","X","Y","Z">>
LOWERCASE ==
  <<"a","b","c","d","e","f","g","h","i","j","k","l","m",
    "n","o","p","q","r","s","t","u","v","w","x","y","z">>

LowerChar(c) ==
  IF \E i \in 1 .. 26 : UPPERCASE[i] = c
  THEN LOWERCASE[CHOOSE i \in 1 .. 26 : UPPERCASE[i] = c]
  ELSE c

\* str.lower()
StrLower(s) == [i \in 1 .. Len(s) |-> LowerChar(s[i])]

(***************************************************************************)
(* class QueryContext, class Config.                                       *)
(***************************************************************************)
UPLOADED_REGULATIONS == "uploaded"
PBJ_NO_UPLOAD == "pbj_no_upload"
NON_PBJ == "non_pbj"

\* The dict of regulation name -> list of valid pasal, in insertion order.
REGULATION_STRUCTURE ==
  <<
    \* "UU No 3 Tahun 2024"
    [name |-> <<"U","U"," ","N","o"," ","3"," ","T","a","h","u","n"," ","2","0","2","4">>,
     pasal |-> Range(1, 133)],
    \* "UU No 6 Tahun 2014"
    [name |-> <<"U","U"," ","N","o"," ","6"," ","T","a","h","u","n"," ","2","0","1","4">>,
     pasal |-> Range(1, 133)],
    \* "PP No 11 Tahun 2019"
    [name |-> <<"P","P"," ","N","o"," ","1","1"," ","T","a","h","u","n"," ","2","0","1","9">>,
     pasal |-> Range(1, 152)],
    \* "PP Nomor 8 Tahun 2016"
    [name |-> <<"P","P"," ","N","o","m","o","r"," ","8"," ","T","a","h","u","n"," ","2","0","1","6">>,
     pasal |-> Range(1, 29)],
    \* "Permendagri No 111 Tahun 2014"
    [name |-> <<"P","e","r","m","e","n","d","a","g","r","i"," ","N","o"," ","1","1","1"," ","T","a","h","u","n"," ","2","0","1","4">>,
     pasal |-> Range(1, 34)],
    \* "Permendagri No 112 Tahun 2014"
    [name |-> <<"P","e","r","m","e","n","d","a","g","r","i"," ","N","o"," ","1","1","2"," ","T","a","h","u","n"," ","2","0","1","4">>,
     pasal |-> Range(1, 51)],
    \* "Permendagri No 20 Tahun 2018"
    [name |-> <<"P","e","r","m","e","n","d","a","g","r","i"," ","N","o"," ","2","0"," ","T","a","h","u","n"," ","2","0","1","8">>,
     pasal |-> Range(1, 107)],
    \* "Permendagri No 114 Tahun 2014"
    [name |-> <<"P","e","r","m","e","n","d","a","g","r","i"," ","N","o"," ","1","1","4"," ","T","a","h","u","n"," ","2","0","1","4">>,
     pasal |-> Range(1, 45)],
    \* "Permendesa No. 2 Tahun 2024"
    [name |-> <<"P","e","r","m","e","n","d","e","s","a"," ","N","o","."," ","2"," ","T","a","h","u","n"," ","2","0","2","4">>,
     pasal |-> Range(1, 26)],
    \* "Peraturan Presiden Nomor 12 Tahun 2021"
    [name |-> <<"P","e","r","a","t","u","r","a","n"," ","P","r","e","s","i","d","e","n"," ","N","o","m","o","r"," ","1","2"," ","T","a","h","u","n"," ","2","0","2","1">>,
     pasal |-> Range(1, 138)],
    \* "Peraturan Presiden Nomor 16 Tahun 2018"
    [name |-> <<"P","e","r","a","t","u","r","a","n"," ","P","r","e","s","i","d","e","n"," ","N","o","m","o","r"," ","1","6"," ","T","a","h","u","n"," ","2","0","1","8">>,
     pasal |-> Range(1, 133)],
    \* "Peraturan Presiden Nomor 46 Tahun 2025"
    [name |-> <<"P","e","r","a","t","u","r","a","n"," ","P","r","e","s","i","d","e","n"," ","N","o","m","o","r"," ","4","6"," ","T","a","h","u","n"," ","2","0","2","5">>,
     pasal |-> Range(1, 50)],
    \* "Peraturan Lembaga Nomor 2 Tahun 2025"
    [name |-> <<"P","e","r","a","t","u","r","a","n"," ","L","e","m","b","a","g","a"," ","N","o","m","o","r"," ","2"," ","T","a","h","u","n"," ","2","0","2","5">>,
     pasal |-> Range(1, 25)],
    \* "Peraturan Lembaga Nomor 12 Tahun 2019"
    [name |-> <<"P","e","r","a","t","u","r","a","n"," ","L","e","m","b","a","g","a"," ","N","o","m","o","r"," ","1","2"," ","T","a","h","u","n"," ","2","0","1","9">>,
     pasal |-> Range(1, 20)],
    \* "Keputusan Deputi I Nomor 1 Tahun 2025"
    [name |-> <<"K","e","p","u","t","u","s","a","n"," ","D","e","p","u","t","i"," ","I"," ","N","o","m","o","r"," ","1"," ","T","a","h","u","n"," ","2","0","2","5">>,
     pasal |-> Range(1, 10)],
    \* "Keputusan Deputi I Nomor 2 Tahun 2024"
    [name |-> <<"K","e","p","u","t","u","s","a","n"," ","D","e","p","u","t","i"," ","I"," ","N","o","m","o","r"," ","2"," ","T","a","h","u","n"," ","2","0","2","4">>,
     pasal |-> Range(1, 10)],
    \* "Perbup No 44 Tahun 2020"
    [name |-> <<"P","e","r","b","u","p"," ","N","o"," ","4","4"," ","T","a","h","u","n"," ","2","0","2","0">>,
     pasal |-> Range(1, 40)],
    \* "Surat Edaran Kepala LKPP Nomor 1 Tahun 2025"
    [name |-> <<"S","u","r","a","t"," ","E","d","a","r","a","n"," ","K","e","p","a","l","a"," ","L","K","P","P"," ","N","o","m","o","r"," ","1"," ","T","a","h","u","n"," ","2","0","2","5">>,
     pasal |-> {}]
  >>

\* Config.PBJ_KEYWORDS
PBJ_KEYWORDS ==
  <<
    <<"p","e","n","g","a","d","a","a","n">>,
    <<"b","a","r","a","n","g">>,
    <<"j","a","s","a">>,
    <<"l","e","l","a","n","g">>,
    <<"t","e","n","d","e","r">>,
    <<"k","o","n","t","r","a","k">>,
    <<"p","e","n","y","e","d","i","a">>,
    <<"p","o","k","j","a">>,
    <<"u","k","p","b","j">>,
    <<"p","e","j","a","b","a","t"," ","p","e","n","g","a","d","a","a","n">>,
    <<"h","p","s">>,
    <<"a","a","n","w","i","j","z","i","n","g">>,
    <<"s","a","n","g","g","a","h">>,
    <<"p","a","s","c","a","k","u","a","l","i","f","i","k","a","s","i">>,
    <<"p","r","a","k","u","a","l","i","f","i","k","a","s","i">>
  >>

\* The alternation of regulation-type prefixes in CitationValidator's pattern.
REG_PREFIXES ==
  <<
    <<"U","U">>,
    <<"P","P">>,
    <<"P","e","r","m","e","n","d","a","g","r","i">>,
    <<"P","e","r","m","e","n","d","e","s","a">>,
    <<"P","e","r","a","t","u","r","a","n"," ","P","r","e","s","i","d","e","n">>,
    <<"P","e","r","a","t","u","r","a","n"," ","L","e","m","b","a","g","a">>,
    <<"K","e","p","u","t","u","s","a","n"," ","D","e","p","u","t","i"," ","I">>,
    <<"P","e","r","b","u","p">>,
    <<"S","u","r","a","t"," ","E","d","a","r","a","n"," ","K","e","p","a","l","a"," ","L","K","P","P">>
  >>

CatalogNames == [i \in 1 .. Len(REGULATION_STRUCTURE) |-> REGULATION_STRUCTURE[i].name]

\* `reg in Config.REGULATION_STRUCTURE`
InCatalog(reg) == \E i \in 1 .. Len(REGULATION_STRUCTURE) : REGULATION_STRUCTURE[i].name = reg

\* Config.REGULATION_STRUCTURE[reg]
ValidList(reg) ==
  REGULATION_STRUCTURE[CHOOSE i \in 1 .. Len(REGULATION_STRUCTURE) :
                          REGULATION_STRUCTURE[i].name = reg].pasal

\* The lists an operator can set EXCLUDED_REGULATIONS to: the shipped empty
\* list and the two examples the source gives in its comment.
ExclusionConfigs ==
  { <<>>,
    <<CatalogNames[2]>>,
    <<CatalogNames[2], CatalogNames[3]>> }

(***************************************************************************)
(* class QueryAnalyzer.                                                    *)
(***************************************************************************)
\* A state dict: has_key says whether "processed_files" is a key of it.
StateDict(files) == [has_key |-> TRUE, processed_files |-> files]
EmptyDict == [has_key |-> FALSE, processed_files |-> <<>>]

\* state.get("processed_files", [])
GetProcessedFiles(st) == IF st.has_key THEN st.processed_files ELSE <<>>

detect_pbj_context_nolower(q) ==
  \E k \in 1 .. Len(PBJ_KEYWORDS) : StrContains(q, PBJ_KEYWORDS[k])

detect_pbj_context(q) ==
  LET question_lower == StrLower(q)
  IN  \E k \in 1 .. Len(PBJ_KEYWORDS) : StrContains(question_lower, PBJ_KEYWORDS[k])

\* get_uploaded_regulations returning every catalog name that some processed
\* file name contains.
get_uploaded_regulations_substring(st) ==
  LET uploaded_files == GetProcessedFiles(st)
  IN  SelectSeq(CatalogNames,
                LAMBDA r : \E i \in 1 .. Len(uploaded_files) : StrContains(uploaded_files[i], r))

get_uploaded_regulations(st) ==
  LET uploaded_files == GetProcessedFiles(st)
  IN  SelectSeq(CatalogNames, LAMBDA r : r \in Elems(uploaded_files))

determine_context_keyword_first(q, st) ==
  LET uploaded_regulations == get_uploaded_regulations(st)
      is_pbj == detect_pbj_context(q)
  IN  IF is_pbj THEN PBJ_NO_UPLOAD
      ELSE IF uploaded_regulations # <<>> THEN UPLOADED_REGULATIONS
      ELSE NON_PBJ

determine_context(q, st) ==
  LET uploaded_regulations == get_uploaded_regulations(st)
      is_pbj == detect_pbj_context(q)
  IN  IF uploaded_regulations # <<>> THEN UPLOADED_REGULATIONS
      ELSE IF is_pbj THEN PBJ_NO_UPLOAD
      ELSE NON_PBJ

(***************************************************************************)
(* Questions, file names and state dicts the classifier is run on.         *)
(***************************************************************************)
\* Example questions, and a file name that is no regulation.
Q_TENDER == <<"A","p","a"," ","i","t","u"," ","t","e","n","d","e","r","?">>
Q_TENDER_UPPER == <<"A","P","A"," ","I","T","U"," ","T","E","N","D","E","R","?">>
Q_CUACA == <<"B","a","g","a","i","m","a","n","a"," ","c","u","a","c","a"," ","h","a","r","i"," ","i","n","i","?">>
Q_KONTRAK == <<"K","o","n","t","r","a","k">>
F_OTHER == <<"n","o","t","u","l","e","n",".","p","d","f">>

QChars == {"h", "p", "s", "S", "x"}

DOT_PDF == <<".", "p", "d", "f">>

\* File names an upload can carry: two catalog names as they stand, and a
\* catalog name with the .pdf extension, which is no catalog name.
FileNames ==
  { CatalogNames[1],
    CatalogNames[18],
    CatalogNames[1] \o DOT_PDF }

Questions == SeqsUpTo(QChars, MaxQLen) \cup {Q_TENDER, Q_TENDER_UPPER, Q_CUACA, Q_KONTRAK}

StateDicts == {EmptyDict} \cup {StateDict(fs) : fs \in SeqsUpTo(FileNames, MaxFiles)}

(***************************************************************************)
(* class CitationValidator.                                                *)
(***************************************************************************)
DIGITS == <<"0","1","2","3","4","5","6","7","8","9">>

\* \d and \s of the pattern, on the characters the model's texts are made of.
IsDigit(c) == \E i \in 1 .. 10 : DIGITS[i] = c
IsSpace(c) == c \in {" ", "\t", "\n"}

DigitVal(c) == (CHOOSE i \in 1 .. 10 : DIGITS[i] = c) - 1

\* int(s) for a str of digits
RECURSIVE StrToInt(_)
StrToInt(s) ==
  IF s = <<>> THEN 0
  ELSE StrToInt(SubSeq(s, 1, Len(s) - 1)) * 10 + DigitVal(s[Len(s)])

\* str(n) for n >= 0
RECURSIVE IntToStr(_)
IntToStr(n) ==
  IF n < 10 THEN <<DIGITS[n + 1]>>
  ELSE IntToStr(n \div 10) \o <<DIGITS[(n % 10) + 1]>>

\* The least index of a non-empty set of indices.
First(J) == CHOOSE j \in J : \A k \in J : j <= k

\* Where a greedy \s* or \d* that starts at i stops: the first index from i on
\* that holds no such character.
SkipSpaces(s, i) ==
  IF i > Len(s) THEN i
  ELSE First({j \in i .. Len(s) + 1 : j > Len(s) \/ ~IsSpace(s[j])})

SkipDigits(s, i) ==
  IF i > Len(s) THEN i
  ELSE First({j \in i .. Len(s) + 1 : j > Len(s) \/ ~IsDigit(s[j])})

\* The first index j >= i with s[j] = c, or 0.
FindChar(s, i, c) ==
  LET J == {j \in i .. Len(s) : s[j] = c}
  IN  IF J = {} THEN 0 ELSE First(J)

\* str.strip()
RECURSIVE StrStrip(_)
StrStrip(s) ==
  IF s = <<>> THEN s
  ELSE IF IsSpace(s[1]) THEN StrStrip(Tail(s))
  ELSE IF IsSpace(s[Len(s)]) THEN StrStrip(SubSeq(s, 1, Len(s) - 1))
  ELSE s

\* s.replace(old, new) for a non-empty old: the occurrences of old from the left,
\* not overlapping.
RECURSIVE StrReplaceFrom(_, _, _, _)
StrReplaceFrom(s, pos, old, new) ==
  LET J == {j \in pos .. Len(s) : StartsWithAt(s, j, old)}
  IN  IF J = {} THEN SubSeq(s, pos, Len(s))
      ELSE SubSeq(s, pos, First(J) - 1) \o new
             \o StrReplaceFrom(s, First(J) + Len(old), old, new)

StrReplace(s, old, new) == StrReplaceFrom(s, 1, old, new)

PASAL == <<"P","a","s","a","l">>
COMMA_PASAL == <<","," ","P","a","s","a","l"," ">>
EXCLUDED_NOTE == <<" ","(","d","i","k","e","c","u","a","l","i","k","a","n"," ","d","a","r","i"," ","p","e","n","g","g","u","n","a","a","n",")">>
UNVERIFIED_NOTE == <<" ","(","p","a","s","a","l"," ","t","i","d","a","k"," ","d","a","p","a","t"," ","d","i","v","e","r","i","f","i","k","a","s","i",")">>

NoMatch == [found |-> FALSE, start |-> 0, stop |-> 0, reg |-> <<>>, pasal |-> <<>>]

\* The pattern tried at position i with the p-th prefix of the alternation:
\* prefix, [^,]* up to the first comma, the comma, \s*, "Pasal", \s*, \d+.
\* [^,]* and \s* and \d+ are greedy, and giving back characters never helps:
\* what follows each of them cannot start with a character it consumes.
MatchWith(s, i, p) ==
  LET prefix == REG_PREFIXES[p]
      comma == FindChar(s, i + Len(prefix), ",")
      a == SkipSpaces(s, comma + 1)
      b == SkipSpaces(s, a + Len(PASAL))
      d == SkipDigits(s, b)
  IN  IF /\ StartsWithAt(s, i, prefix)
         /\ comma # 0
         /\ StartsWithAt(s, a, PASAL)
         /\ d > b
      THEN [found |-> TRUE, start |-> i, stop |-> d - 1,
            reg |-> SubSeq(s, i, comma - 1), pasal |-> SubSeq(s, b, d - 1)]
      ELSE NoMatch

\* The pattern at position i: the first alternative that lets the rest match.
MatchAt(s, i) ==
  LET ok == {p \in 1 .. Len(REG_PREFIXES) : MatchWith(s, i, p).found}
  IN  IF ok = {} THEN NoMatch
      ELSE MatchWith(s, i, CHOOSE p \in ok : \A q \in ok : p <= q)

\* The matches re.sub visits from position pos: leftmost first, not overlapping.
RECURSIVE FindAll(_, _)
FindAll(s, pos) ==
  LET J == {j \in pos .. Len(s) : MatchAt(s, j).found}
  IN  IF J = {} THEN <<>>
      ELSE LET m == MatchAt(s, First(J))
           IN  <<m>> \o FindAll(s, m.stop + 1)

replacer_no_range_check(m, excluded) ==
  LET reg == StrStrip(m.reg)
      pasal == StrToInt(m.pasal)
  IN  IF reg \in Elems(excluded) THEN reg \o EXCLUDED_NOTE
      ELSE IF ~InCatalog(reg) THEN reg \o UNVERIFIED_NOTE
      ELSE IF ValidList(reg) = {} THEN reg
      ELSE reg \o COMMA_PASAL \o IntToStr(pasal)

\* replacer leaving a name it does not know without an annotation.
replacer_unknown_bare(m, excluded) ==
  LET reg == StrStrip(m.reg)
      pasal == StrToInt(m.pasal)
  IN  IF reg \in Elems(excluded) THEN reg \o EXCLUDED_NOTE
      ELSE IF ~InCatalog(reg) THEN reg
      ELSE IF ValidList(reg) = {} THEN reg
      ELSE IF pasal \notin ValidList(reg) THEN reg \o UNVERIFIED_NOTE
      ELSE reg \o COMMA_PASAL \o IntToStr(pasal)

\* replacer annotating a regulation that lists no pasal.
replacer_empty_list_unverified(m, excluded) ==
  LET reg == StrStrip(m.reg)
      pasal == StrToInt(m.pasal)
  IN  IF reg \in Elems(excluded) THEN reg \o EXCLUDED_NOTE
      ELSE IF ~InCatalog(reg) THEN reg \o UNVERIFIED_NOTE
      ELSE IF ValidList(reg) = {} THEN reg \o UNVERIFIED_NOTE
      ELSE IF pasal \notin ValidList(reg) THEN reg \o UNVERIFIED_NOTE
      ELSE reg \o COMMA_PASAL \o IntToStr(pasal)

\* replacer looking the name up in the catalog before the exclusion list.
replacer_catalog_first(m, excluded) ==
  LET reg == StrStrip(m.reg)
      pasal == StrToInt(m.pasal)
  IN  IF InCatalog(reg) /\ pasal \in ValidList(reg)
      THEN reg \o COMMA_PASAL \o IntToStr(pasal)
      ELSE IF reg \in Elems(excluded) THEN reg \o EXCLUDED_NOTE
      ELSE IF ~InCatalog(reg) THEN reg \o UNVERIFIED_NOTE
      ELSE IF ValidList(reg) = {} THEN reg
      ELSE reg \o UNVERIFIED_NOTE

\* def replacer(match), with Config.EXCLUDED_REGULATIONS as excluded
replacer(m, excluded) ==
  LET reg == StrStrip(m.reg)
      pasal == StrToInt(m.pasal)
  IN  IF reg \in Elems(excluded) THEN reg \o EXCLUDED_NOTE
      ELSE IF ~InCatalog(reg) THEN reg \o UNVERIFIED_NOTE
      ELSE LET valid_list == ValidList(reg)
           IN  IF valid_list = {} THEN reg
               ELSE IF pasal \notin valid_list THEN reg \o UNVERIFIED_NOTE
               ELSE reg \o COMMA_PASAL \o IntToStr(pasal)

\* re.sub(pattern, replacer, s): the text between the matches kept, each match
\* replaced by what replacer returns for it.
RECURSIVE SubstituteFrom(_, _, _, _, _)
SubstituteFrom(s, ms, k, pos, excluded) ==
  IF k > Len(ms) THEN SubSeq(s, pos, Len(s))
  ELSE SubSeq(s, pos, ms[k].start - 1)
         \o replacer(ms[k], excluded)
         \o SubstituteFrom(s, ms, k + 1, ms[k].stop + 1, excluded)

ReSub(s, excluded) == SubstituteFrom(s, FindAll(s, 1), 1, 1, excluded)

\* for ex in Config.EXCLUDED_REGULATIONS: cleaned = cleaned.replace(ex, f"{ex} (...)")
RECURSIVE MarkExcluded(_, _, _)
MarkExcluded(s, excluded, k) ==
  IF k > Len(excluded) THEN s
  ELSE MarkExcluded(StrReplace(s, excluded[k], excluded[k] \o EXCLUDED_NOTE), excluded, k + 1)

validate_without_marking(text, excluded) == ReSub(text, excluded)

validate_stripped(text, excluded) ==
  StrStrip(MarkExcluded(ReSub(text, excluded), excluded, 1))

\* CitationValidator.validate(response_text), with response_text as text and
\* Config.EXCLUDED_REGULATIONS as excluded
validate(text, excluded) ==
  LET cleaned0 == ReSub(text, excluded)
  IN  MarkExcluded(cleaned0, excluded, 1)

\* The calls of replacer that validate makes, in order: what was matched, the
\* two groups as replacer reads them, and what it returned.
ReplacerCalls(s, excluded) ==
  LET ms == FindAll(s, 1)
  IN  [k \in 1 .. Len(ms) |->
        [match |-> SubSeq(s, ms[k].start, ms[k].stop),
         start |-> ms[k].start,
         stop |-> ms[k].stop,
         reg |-> StrStrip(ms[k].reg),
         pasal |-> StrToInt(ms[k].pasal),
         out |-> replacer(ms[k], excluded)]]

(***************************************************************************)
(* class GeminiService.                                                    *)
(***************************************************************************)
\* sep.join(parts)
RECURSIVE StrJoin(_, _)
StrJoin(sep, parts) ==
  IF parts = <<>> THEN <<>>
  ELSE IF Len(parts) = 1 THEN parts[1]
  ELSE parts[1] \o sep \o StrJoin(sep, Tail(parts))

STATUS_UPLOADED == <<"R","E","G","U","L","A","S","I"," ","S","U","D","A","H"," ","D","I","U","P","L","O","A","D"," ","-"," ","V","a","l","i","d","i","t","a","s"," ","j","a","w","a","b","a","n"," ","t","e","r","j","a","m","i","n">>
STATUS_NOT_UPLOADED == <<"[","!","]"," ","R","E","G","U","L","A","S","I"," ","B","E","L","U","M"," ","D","I","U","P","L","O","A","D"," ","-"," ","V","a","l","i","d","i","t","a","s"," ","j","a","w","a","b","a","n"," ","T","I","D","A","K"," ","t","e","r","j","a","m","i","n">>
NOTE_RELIABLE == <<"J","a","w","a","b","a","n"," ","b","e","r","i","k","u","t"," ","b","e","r","d","a","s","a","r","k","a","n"," ","r","e","g","u","l","a","s","i"," ","y","a","n","g"," ","t","e","l","a","h"," ","d","i","u","p","l","o","a","d"," ","d","a","n"," ","d","i","v","e","r","i","f","i","k","a","s","i",".">>
NOTE_UNRELIABLE == <<"P","E","R","I","N","G","A","T","A","N",":"," ","R","e","g","u","l","a","s","i"," ","b","e","l","u","m"," ","d","i","u","p","l","o","a","d","."," ","J","a","w","a","b","a","n"," ","b","e","r","i","k","u","t"," ","m","u","n","g","k","i","n"," ","t","i","d","a","k"," ","a","k","u","r","a","t"," ","a","t","a","u"," ","t","i","d","a","k"," ","d","a","p","a","t"," ","d","i","v","e","r","i","f","i","k","a","s","i",".">>
TIDAK_ADA == <<"T","i","d","a","k"," ","a","d","a">>

\* build_prompt listing every catalog regulation.
build_prompt_listing_all(q, has_uploaded, excluded) ==
  LET included_regulations == CatalogNames
      regulations_text ==
        StrJoin(<<"\n">>, [i \in 1 .. Len(included_regulations) |->
                            IntToStr(i) \o <<".", " ">> \o included_regulations[i]])
      excluded_text == IF excluded # <<>> THEN StrJoin(<<",", " ">>, excluded) ELSE TIDAK_ADA
  IN  [validation_status |-> IF has_uploaded THEN STATUS_UPLOADED ELSE STATUS_NOT_UPLOADED,
       excluded_text |-> excluded_text,
       regulations_text |-> regulations_text,
       question |-> q,
       reliability_note |-> IF has_uploaded THEN NOTE_RELIABLE ELSE NOTE_UNRELIABLE]

\* GeminiService.build_prompt(question, has_uploaded): the five texts the
\* template is filled with; the template around them is fixed.
build_prompt(q, has_uploaded, excluded) ==
  LET all_regulations == CatalogNames
      included_regulations == SelectSeq(all_regulations, LAMBDA r : r \notin Elems(excluded))
      regulations_text ==
        StrJoin(<<"\n">>, [i \in 1 .. Len(included_regulations) |->
                            IntToStr(i) \o <<".", " ">> \o included_regulations[i]])
      excluded_text == IF excluded # <<>> THEN StrJoin(<<",", " ">>, excluded) ELSE TIDAK_ADA
  IN  [validation_status |-> IF has_uploaded THEN STATUS_UPLOADED ELSE STATUS_NOT_UPLOADED,
       excluded_text |-> excluded_text,
       regulations_text |-> regulations_text,
       question |-> q,
       reliability_note |-> IF has_uploaded THEN NOTE_RELIABLE ELSE NOTE_UNRELIABLE]

\* A value json() can return.  t is its type; an object has keys k and values v
\* (in order), a list has items v, a str has characters s.
JNull == [t |-> "null", k |-> <<>>, v |-> <<>>, s |-> <<>>]
JNum == [t |-> "num", k |-> <<>>, v |-> <<>>, s |-> <<>>]
JStr(chars) == [t |-> "str", k |-> <<>>, v |-> <<>>, s |-> chars]
JList(items) == [t |-> "list", k |-> <<>>, v |-> items, s |-> <<>>]
JDict(keys, vals) == [t |-> "dict", k |-> keys, v |-> vals, s |-> <<>>]

\* The outcome of evaluating an expression: no exception and a value, or an
\* exception class and str(e).
Returned(val) == [exc |-> "none", msg |-> <<>>, val |-> val]
Raised(class, msg) == [exc |-> class, msg |-> msg, val |-> JNull]

KEY_CANDIDATES == <<"c","a","n","d","i","d","a","t","e","s">>
KEY_CONTENT == <<"c","o","n","t","e","n","t">>
KEY_PARTS == <<"p","a","r","t","s">>
KEY_TEXT == <<"t","e","x","t">>

MSG_LIST_INDEX == <<"l","i","s","t"," ","i","n","d","e","x"," ","o","u","t"," ","o","f"," ","r","a","n","g","e">>
MSG_STRING_INDEX == <<"s","t","r","i","n","g"," ","i","n","d","e","x"," ","o","u","t"," ","o","f"," ","r","a","n","g","e">>
MSG_NOT_SUBSCRIPTABLE == <<"o","b","j","e","c","t"," ","i","s"," ","n","o","t"," ","s","u","b","s","c","r","i","p","t","a","b","l","e">>
MSG_LIST_INDICES == <<"l","i","s","t"," ","i","n","d","i","c","e","s"," ","m","u","s","t"," ","b","e"," ","i","n","t","e","g","e","r","s"," ","o","r"," ","s","l","i","c","e","s",","," ","n","o","t"," ","s","t","r">>
MSG_STR_INDICES == <<"s","t","r","i","n","g"," ","i","n","d","i","c","e","s"," ","m","u","s","t"," ","b","e"," ","i","n","t","e","g","e","r","s">>
MSG_EXPECTED_STR == <<"e","x","p","e","c","t","e","d"," ","s","t","r","i","n","g"," ","o","r"," ","b","y","t","e","s","-","l","i","k","e"," ","o","b","j","e","c","t">>
MSG_CONNECTION == <<"C","o","n","n","e","c","t","i","o","n","E","r","r","o","r">>
MSG_HTTP == <<"H","T","T","P","E","r","r","o","r">>
MSG_JSON == <<"E","x","p","e","c","t","i","n","g"," ","v","a","l","u","e",":"," ","l","i","n","e"," ","1"," ","c","o","l","u","m","n"," ","1"," ","(","c","h","a","r"," ","0",")">>

\* x[key] for a str key
GetKey(x, key) ==
  IF x.t = "dict"
  THEN IF \E i \in 1 .. Len(x.k) : x.k[i] = key
       THEN Returned(x.v[CHOOSE i \in 1 .. Len(x.k) : x.k[i] = key])
       ELSE Raised("KeyError", <<"'">> \o key \o <<"'">>)
  ELSE IF x.t = "list" THEN Raised("TypeError", MSG_LIST_INDICES)
  ELSE IF x.t = "str" THEN Raised("TypeError", MSG_STR_INDICES)
  ELSE Raised("TypeError", MSG_NOT_SUBSCRIPTABLE)

\* x[0]
GetFirst(x) ==
  IF x.t = "list"
  THEN IF x.v # <<>> THEN Returned(x.v[1]) ELSE Raised("IndexError", MSG_LIST_INDEX)
  ELSE IF x.t = "str"
  THEN IF x.s # <<>> THEN Returned(JStr(<<x.s[1]>>)) ELSE Raised("IndexError", MSG_STRING_INDEX)
  ELSE IF x.t = "dict" THEN Raised("KeyError", <<"0">>)
  ELSE Raised("TypeError", MSG_NOT_SUBSCRIPTABLE)

\* The next subscript, unless the one before raised.
ThenKey(r, key) == IF r.exc = "none" THEN GetKey(r.val, key) ELSE r
ThenFirst(r) == IF r.exc = "none" THEN GetFirst(r.val) ELSE r

\* data["candidates"][0]["content"]["parts"][0]["text"]
ExtractText(data) ==
  ThenKey(ThenFirst(ThenKey(ThenKey(ThenFirst(GetKey(data, KEY_CANDIDATES)),
                                    KEY_CONTENT),
                            KEY_PARTS)),
          KEY_TEXT)

\* What the service does with one request.  transport "error": requests.post
\* raises; otherwise a response with a status and a body, which is JSON (json)
\* or not.  decode_error is the class response.json() raises on a body that is
\* not JSON: a RequestException in requests 2.27 and later, a plain ValueError
\* before; the source pins no version.
ConnectionFailure ==
  [transport |-> "error", status |-> 0, is_json |-> FALSE, json |-> JNull,
   decode_error |-> "RequestException"]
HttpReply(status, data) ==
  [transport |-> "ok", status |-> status, is_json |-> TRUE, json |-> data,
   decode_error |-> "RequestException"]
NotJsonReply(class) ==
  [transport |-> "ok", status |-> 200, is_json |-> FALSE, json |-> JNull,
   decode_error |-> class]

API_ERROR == <<"[","x","]"," ","E","r","r","o","r"," ","d","a","r","i"," ","G","e","m","i","n","i"," ","A","P","I",":"," ">>
FORMAT_ERROR == <<"[","x","]"," ","F","o","r","m","a","t"," ","r","e","s","p","o","n","s","e"," ","t","i","d","a","k"," ","v","a","l","i","d",":"," ">>

\* The try block of call_api: post, raise_for_status, json, the subscripts.
CallApiBody(reply) ==
  IF reply.transport = "error" THEN Raised("RequestException", MSG_CONNECTION)
  ELSE IF reply.status >= 400 /\ reply.status < 600 THEN Raised("RequestException", MSG_HTTP)
  ELSE IF ~reply.is_json THEN Raised(reply.decode_error, MSG_JSON)
  ELSE ExtractText(reply.json)

\* GeminiService.call_api(prompt): the value returned, or the exception that
\* leaves the function.
call_api(prompt, reply) ==
  LET r == CallApiBody(reply)
  IN  IF r.exc = "RequestException" THEN Returned(JStr(API_ERROR \o r.msg))
      ELSE IF r.exc \in {"KeyError", "IndexError"} THEN Returned(JStr(FORMAT_ERROR \o r.msg))
      ELSE r

(***************************************************************************)
(* class StateManager.  Config.STATE_FILE is absent, holds the JSON that   *)
(* save_state dumped, or is empty: open(..., "w") has truncated it and the  *)
(* dump has not been written yet.                                          *)
(***************************************************************************)
FileAbsent == [kind |-> "absent", processed_files |-> <<>>]
FileEmpty == [kind |-> "empty", processed_files |-> <<>>]
FileJson(files) == [kind |-> "json", processed_files |-> files]

\* The result of a call that returns a state dict or raises.
Loaded(st) == [exc |-> "none", msg |-> <<>>, val |-> st]
LoadFailed(class, msg) == [exc |-> class, msg |-> msg, val |-> EmptyDict]

\* load_state returning {} whatever the file holds.
load_state_ignoring_file(file) == Loaded(EmptyDict)

\* StateManager.load_state()
load_state(file) ==
  IF file.kind # "absent"
  THEN IF file.kind = "json" THEN Loaded(StateDict(file.processed_files))
       ELSE LoadFailed("JSONDecodeError", MSG_JSON)
  ELSE Loaded(StateDict(<<>>))

\* The lists list(a_set) can be: the elements once each, in any order.
ListsOf(S) ==
  {l \in [1 .. Cardinality(S) -> S] : \A i, j \in 1 .. Cardinality(S) : l[i] = l[j] => i = j}

\* save_state that dumps the new names only.
UpdatedLists_replacing(st, names) == ListsOf(Elems(names))

\* save_state(new_file_names) up to its open(), with new_file_names as names:
\* the list it is about to dump, for every order list() can give the set.
UpdatedLists(st, names) ==
  LET existing == Elems(GetProcessedFiles(st))
  IN  ListsOf(existing \cup Elems(names))

\* StateManager.clear_state()
clear_state(file) == IF file.kind # "absent" THEN FileAbsent ELSE file

(***************************************************************************)
(* class PDFProcessor.                                                     *)
(***************************************************************************)
\* An uploaded file: its name, whether PdfReader can read it, and its text.
Pdf(name, readable, text) == [name |-> name, readable |-> readable, text |-> text]

\* PDFProcessor.extract_text(pdf_docs): the text of the readable files; a file
\* that cannot be read is reported with st.error and skipped.
RECURSIVE extract_text(_)
extract_text(pdf_docs) ==
  IF pdf_docs = <<>> THEN [text |-> <<>>, errors |-> <<>>]
  ELSE LET rest == extract_text(Tail(pdf_docs))
           pdf == Head(pdf_docs)
       IN  IF pdf.readable
           THEN [text |-> pdf.text \o rest.text, errors |-> rest.errors]
           ELSE [text |-> rest.text, errors |-> <<pdf.name>> \o rest.errors]

\* splitter.split_text(text) on a text without white space: the splitter cuts
\* it into its characters and merges them into windows of chunk_size
\* characters, each starting chunk_size - chunk_overlap characters after the
\* one before (one character after it when that is less than one), up to the
\* window that reaches the end of the text.
split_text(text, chunk_size, chunk_overlap) ==
  LET n == Len(text)
      step == IF chunk_size - chunk_overlap >= 1 THEN chunk_size - chunk_overlap ELSE 1
      starts == {i \in 1 .. n : /\ (i - 1) % step = 0
                                /\ (i = 1 \/ (i - step) + chunk_size - 1 < n)}
      stop(i) == IF i + chunk_size - 1 < n THEN i + chunk_size - 1 ELSE n
  IN  [k \in 1 .. Cardinality(starts) |->
         SubSeq(text, 1 + (k - 1) * step, stop(1 + (k - 1) * step))]

\* PDFProcessor.create_chunks(text, chunk_size, chunk_overlap), for a positive
\* chunk_size and a chunk_overlap that is not negative.  The method checks
\* nothing itself; RecursiveCharacterTextSplitter's constructor raises
\* ValueError when chunk_overlap > chunk_size, and only then.
create_chunks(text, chunk_size, chunk_overlap) ==
  IF chunk_overlap > chunk_size
  THEN [exc |-> "ValueError", chunks |-> <<>>]
  ELSE [exc |-> "none", chunks |-> split_text(text, chunk_size, chunk_overlap)]

\* The defaults of create_chunks' parameters.
DEFAULT_CHUNK_SIZE == 2000
DEFAULT_CHUNK_OVERLAP == 200

(***************************************************************************)
(* class ResponseHandler.                                                  *)
(***************************************************************************)
ResponseData(output_text, note, warning, source_type) ==
  [output_text |-> output_text, note |-> note, warning |-> warning,
   source_type |-> source_type]

NoResponse == ResponseData(<<>>, <<>>, <<>>, "")

NOTE_SOURCES == <<"[","v","]"," ","S","u","m","b","e","r",":"," ">>
WARNING_NO_UPLOAD == <<"[","!","]"," ","R","e","g","u","l","a","s","i"," ","b","e","l","u","m"," ","d","i","u","p","l","o","a","d","."," ","V","a","l","i","d","i","t","a","s"," ","j","a","w","a","b","a","n"," ","T","I","D","A","K"," ","t","e","r","j","a","m","i","n",".">>
NOTE_NO_UPLOAD == <<"J","a","w","a","b","a","n"," ","i","n","i"," ","m","e","n","g","g","u","n","a","k","a","n"," ","p","e","n","g","e","t","a","h","u","a","n"," ","u","m","u","m"," ","d","a","n"," ","m","u","n","g","k","i","n"," ","t","i","d","a","k"," ","a","k","u","r","a","t","."," ","S","i","l","a","k","a","n"," ","u","p","l","o","a","d"," ","r","e","g","u","l","a","s","i"," ","u","n","t","u","k"," ","j","a","w","a","b","a","n"," ","y","a","n","g"," ","t","e","r","v","e","r","i","f","i","k","a","s","i",".">>
TEXT_NON_PBJ == <<"M","a","a","f",","," ","p","e","r","t","a","n","y","a","a","n"," ","A","n","d","a"," ","t","i","d","a","k"," ","s","e","s","u","a","i"," ","d","e","n","g","a","n"," ","k","o","n","t","e","k","s"," ","p","e","n","g","a","d","a","a","n"," ","b","a","r","a","n","g","/","j","a","s","a","."," ","R","e","g","u","B","o","t"," ","d","i","r","a","n","c","a","n","g"," ","k","h","u","s","u","s"," ","u","n","t","u","k"," ","m","e","n","j","a","w","a","b"," ","p","e","r","t","a","n","y","a","a","n"," ","t","e","r","k","a","i","t"," ","r","e","g","u","l","a","s","i"," ","p","e","n","g","a","d","a","a","n"," ","b","a","r","a","n","g","/","j","a","s","a"," ","d","i"," ","I","n","d","o","n","e","s","i","a",".">>
NOTE_NON_PBJ == <<"S","i","l","a","k","a","n"," ","a","j","u","k","a","n"," ","p","e","r","t","a","n","y","a","a","n"," ","t","e","r","k","a","i","t",":"," ","p","e","n","g","a","d","a","a","n"," ","b","a","r","a","n","g","/","j","a","s","a",","," ","l","e","l","a","n","g",","," ","t","e","n","d","e","r",","," ","k","o","n","t","r","a","k",","," ","a","t","a","u"," ","r","e","g","u","l","a","s","i"," ","t","e","r","k","a","i","t",".">>

\* What a handler did: the exception that left it (or "none") with str(e), the
\* prompts it passed to call_api in order, what call_api returned, and the
\* ResponseData it returned.
Handled(exc, msg, api_prompts, api_ret, response) ==
  [exc |-> exc, msg |-> msg, api_prompts |-> api_prompts, api_ret |-> api_ret,
   response |-> response]

\* handle_uploaded_regulations calling call_api again after an error text.
handle_uploaded_regulations_retrying(q, uploaded_regs, excluded, reply) ==
  LET prompt == build_prompt(q, TRUE, excluded)
      first == call_api(prompt, reply)
      again == /\ first.exc = "none"
               /\ first.val.t = "str"
               /\ StartsWithAt(first.val.s, 1, API_ERROR)
      r == IF again THEN call_api(prompt, reply) ELSE first
      sent == IF again THEN <<prompt, prompt>> ELSE <<prompt>>
  IN  IF r.exc # "none" THEN Handled(r.exc, r.msg, sent, JNull, NoResponse)
      ELSE IF r.val.t # "str"
      THEN Handled("TypeError", MSG_EXPECTED_STR, sent, r.val, NoResponse)
      ELSE Handled("none", <<>>, sent, r.val,
                   ResponseData(validate(r.val.s, excluded),
                                NOTE_SOURCES \o StrJoin(<<",", " ">>, uploaded_regs),
                                <<>>, "regulation"))

handle_uploaded_regulations_unvalidated(q, uploaded_regs, excluded, reply) ==
  LET prompt == build_prompt(q, TRUE, excluded)
      r == call_api(prompt, reply)
  IN  IF r.exc # "none" THEN Handled(r.exc, r.msg, <<prompt>>, JNull, NoResponse)
      ELSE IF r.val.t # "str"
      THEN Handled("TypeError", MSG_EXPECTED_STR, <<prompt>>, r.val, NoResponse)
      ELSE Handled("none", <<>>, <<prompt>>, r.val,
                   ResponseData(r.val.s,
                                NOTE_SOURCES \o StrJoin(<<",", " ">>, uploaded_regs),
                                <<>>, "regulation"))

\* ResponseHandler.handle_uploaded_regulations(question, uploaded_regs).  An
\* exception of call_api leaves the handler; so does the TypeError of re.sub
\* when call_api returned something that is not a str.
handle_uploaded_regulations(q, uploaded_regs, excluded, reply) ==
  LET prompt == build_prompt(q, TRUE, excluded)
      r == call_api(prompt, reply)
  IN  IF r.exc # "none" THEN Handled(r.exc, r.msg, <<prompt>>, JNull, NoResponse)
      ELSE IF r.val.t # "str"
      THEN Handled("TypeError", MSG_EXPECTED_STR, <<prompt>>, r.val, NoResponse)
      ELSE Handled("none", <<>>, <<prompt>>, r.val,
                   ResponseData(validate(r.val.s, excluded),
                                NOTE_SOURCES \o StrJoin(<<",", " ">>, uploaded_regs),
                                <<>>, "regulation"))

\* ResponseHandler.handle_pbj_no_upload(question)
handle_pbj_no_upload(q, excluded, reply) ==
  LET prompt == build_prompt(q, FALSE, excluded)
      r == call_api(prompt, reply)
  IN  IF r.exc # "none" THEN Handled(r.exc, r.msg, <<prompt>>, JNull, NoResponse)
      ELSE IF r.val.t # "str"
      THEN Handled("TypeError", MSG_EXPECTED_STR, <<prompt>>, r.val, NoResponse)
      ELSE Handled("none", <<>>, <<prompt>>, r.val,
                   ResponseData(validate(r.val.s, excluded), NOTE_NO_UPLOAD,
                                WARNING_NO_UPLOAD, "external"))

\* handle_non_pbj asking the service all the same.
handle_non_pbj_generating(q) ==
  LET prompt == build_prompt(q, FALSE, <<>>)
  IN  Handled("none", <<>>, <<prompt>>, JNull,
              ResponseData(TEXT_NON_PBJ, NOTE_NON_PBJ, <<>>, "none"))

\* ResponseHandler.handle_non_pbj(question)
handle_non_pbj(q) ==
  Handled("none", <<>>, <<>>, JNull, ResponseData(TEXT_NON_PBJ, NOTE_NON_PBJ, <<>>, "none"))

\* ResponseHandler.process_query(question, state): the context it computed
\* and what the handler it chose did.
process_query(q, st, excluded, reply) ==
  LET ctx == determine_context(q, st)
      uploaded_regs == get_uploaded_regulations(st)
  IN  [context |-> ctx,
       run |-> IF ctx = UPLOADED_REGULATIONS
               THEN handle_uploaded_regulations(q, uploaded_regs, excluded, reply)
               ELSE IF ctx = PBJ_NO_UPLOAD
               THEN handle_pbj_no_upload(q, excluded, reply)
               ELSE handle_non_pbj(q)]

(***************************************************************************)
(* class ReguBotApp.                                                       *)
(***************************************************************************)
WELCOME == <<"[","h","i","]"," ","S","e","l","a","m","a","t"," ","d","a","t","a","n","g","!"," ","S","a","y","a"," ","R","e","g","u","B","o","t",","," ","a","s","i","s","t","e","n"," ","A","n","d","a"," ","u","n","t","u","k"," ","p","e","r","t","a","n","y","a","a","n"," ","s","e","p","u","t","a","r"," ","r","e","g","u","l","a","s","i"," ","p","e","n","g","a","d","a","a","n"," ","b","a","r","a","n","g","/","j","a","s","a","."," ","S","i","l","a","k","a","n"," ","a","j","u","k","a","n"," ","p","e","r","t","a","n","y","a","a","n"," ","A","n","d","a",".">>
CHAT_RESET == <<"[","h","i","]"," ","C","h","a","t"," ","t","e","l","a","h"," ","d","i","r","e","s","e","t","."," ","S","i","l","a","k","a","n"," ","m","u","l","a","i"," ","p","e","r","c","a","k","a","p","a","n"," ","b","a","r","u",".">>
ERROR_OCCURRED == <<"[","x","]"," ","T","e","r","j","a","d","i"," ","k","e","s","a","l","a","h","a","n",":"," ">>
NOTE_MARK == <<"\n","\n","[","i","]"," ">>

Message(role, content) == [role |-> role, content |-> content]

\* The text render_chat_interface stores for a response.
FullResponse(response) ==
  LET with_warning ==
        IF response.warning # <<>>
        THEN response.warning \o <<"\n", "\n">> \o response.output_text
        ELSE response.output_text
  IN  IF response.note # <<>>
      THEN with_warning \o NOTE_MARK \o response.note
      ELSE with_warning

\* What the chat handler did with the last question of a session.
NoQuery ==
  [file |-> "", exc |-> "", context |-> "", api_calls |-> 0, api_ret |-> JNull,
   response |-> NoResponse]

(***************************************************************************)
(* The variable groups, and each group's value while its component is not   *)
(* the one being run.                                                      *)
(***************************************************************************)
classifyVars == <<question, state, uploaded, context, cpc>>
validateVars == <<response_text, cleaned, calls, vpc>>
apiVars == <<api_prompt, api_reply, api_result, apc>>
fileVars == <<stateFile, new_file_names, passed>>
sessionVars == <<pc, pending, notice, messages, last, overlapped>>
vars == <<EXCLUDED_REGULATIONS, classifyVars, validateVars, apiVars, chunking, prompting, fileVars, sessionVars>>

Sessions == {1, 2}

ClassifyUnused ==
  /\ question = <<>>
  /\ state = EmptyDict
  /\ uploaded = <<>>
  /\ context = "none"
  /\ cpc = "unused"

ValidateUnused ==
  /\ response_text = <<>>
  /\ cleaned = <<>>
  /\ calls = <<>>
  /\ vpc = "unused"

ApiUnused ==
  /\ api_prompt = <<>>
  /\ api_reply = ConnectionFailure
  /\ api_result = Returned(JNull)
  /\ apc = "unused"

PromptingUnused ==
  prompting = [question |-> <<>>, has_uploaded |-> TRUE,
               prompt |-> build_prompt(<<>>, TRUE, <<>>), pc |-> "unused"]

ChunkingUnused ==
  chunking = [text |-> <<>>, chunk_size |-> DEFAULT_CHUNK_SIZE,
              chunk_overlap |-> DEFAULT_CHUNK_OVERLAP,
              result |-> create_chunks(<<>>, DEFAULT_CHUNK_SIZE, DEFAULT_CHUNK_OVERLAP),
              pc |-> "unused"]

\* No state file, nothing saved yet.
FileInit ==
  /\ stateFile = FileAbsent
  /\ new_file_names = <<>>
  /\ passed = {}

\* ReguBotApp.initialize_session_state, for every session
SessionsInit ==
  /\ pc = [s \in Sessions |-> "idle"]
  /\ pending = [s \in Sessions |-> <<>>]
  /\ notice = [s \in Sessions |-> "none"]
  /\ messages = [s \in Sessions |-> <<Message("assistant", WELCOME)>>]
  /\ last = [s \in Sessions |-> NoQuery]
  /\ overlapped = FALSE

(***************************************************************************)
(* The classifier on bounded inputs: every question of at most MaxQLen     *)
(* characters over QChars plus the example questions, and every state dict *)
(* of at most MaxFiles file names.                                         *)
(***************************************************************************)
InitClassify ==
  /\ EXCLUDED_REGULATIONS = <<>>
  /\ question \in Questions
  /\ state \in StateDicts
  /\ uploaded = <<>>
  /\ context = "none"
  /\ cpc = "start"
  /\ ValidateUnused /\ ApiUnused /\ FileInit /\ SessionsInit /\ ChunkingUnused /\ PromptingUnused

\* QueryAnalyzer.determine_context(question, state)
DetermineContext ==
  /\ cpc = "start"
  /\ uploaded' = get_uploaded_regulations(state)
  /\ context' = determine_context(question, state)
  /\ cpc' = "done"
  /\ UNCHANGED <<EXCLUDED_REGULATIONS, question, state, validateVars, apiVars,
                 fileVars, sessionVars, chunking, prompting>>

SpecClassify == InitClassify /\ [][DetermineContext]_vars

(***************************************************************************)
(* The validator on bounded inputs: every text of at most MaxParts parts,  *)
(* a part being a citation, a bare regulation name or filler, under every  *)
(* exclusion list of ExclusionConfigs.                                     *)
(***************************************************************************)
N_VALID == CatalogNames[1]       \* pasal 1..132
N_EXCLUDABLE == CatalogNames[2]  \* pasal 1..132, excluded in two of the configurations
N_NO_PASAL == CatalogNames[18]   \* empty pasal list
N_UNKNOWN == <<"P","P"," ","7">>       \* "PP 7": a recognised prefix, no catalog entry

CitedNames == {N_VALID, N_EXCLUDABLE, N_NO_PASAL, N_UNKNOWN}

\* Every name with ", Pasal " and a number in range and one just out of
\* range; the first name also with other white space, which the pattern
\* takes, and with a leading zero.
Citations ==
  {n \o COMMA_PASAL \o d : n \in CitedNames, d \in {<<"5">>, <<"1","3","3">>}}
    \cup { N_VALID \o <<" ",",","\n","P","a","s","a","l">> \o <<"5">>,
           N_VALID \o COMMA_PASAL \o <<"0","5">> }

Fillers ==
  { <<"P","P"," ","7"," ","d","a","n"," ">>,
    <<","," ","P","a","s","a","l"," ","6">>,
    <<" ","b","e","r","l","a","k","u","."," ">> }

Texts == {Flatten(ps) : ps \in SeqsUpTo(Citations \cup CitedNames \cup Fillers, MaxParts)}

InitValidate ==
  /\ EXCLUDED_REGULATIONS \in ExclusionConfigs
  /\ response_text \in Texts
  /\ cleaned = <<>>
  /\ calls = <<>>
  /\ vpc = "start"
  /\ ClassifyUnused /\ ApiUnused /\ FileInit /\ SessionsInit /\ ChunkingUnused /\ PromptingUnused

\* CitationValidator.validate(response_text)
Validate ==
  /\ vpc = "start"
  /\ cleaned' = validate(response_text, EXCLUDED_REGULATIONS)
  /\ calls' = ReplacerCalls(response_text, EXCLUDED_REGULATIONS)
  /\ vpc' = "done"
  /\ UNCHANGED <<EXCLUDED_REGULATIONS, response_text, classifyVars, apiVars,
                 fileVars, sessionVars, chunking, prompting>>

SpecValidate == InitValidate /\ [][Validate]_vars

(***************************************************************************)
(* call_api on every reply of the service: a transport failure, an error   *)
(* status, a body that is not JSON, and a JSON body that follows the shape  *)
(* {"candidates": [{"content": {"parts": [{"text": ...}]}}]} down to some   *)
(* level and has something else there.                                     *)
(***************************************************************************)
R_VALID == N_VALID \o COMMA_PASAL \o <<"5">>
R_INVALID == N_VALID \o COMMA_PASAL \o <<"1", "3", "3">>
R_PLAIN == <<"J","a","w","a","b","a","n">>

EmptyDictValue == JDict(<<>>, <<>>)

\* Bodies json() can return: the expected nesting of objects and lists, and at
\* every level of it a value of another type, an empty container and a
\* missing key.
Bodies ==
  LET TextValues == {JStr(t) : t \in {R_VALID, R_INVALID, R_PLAIN}} \cup {JNull, JNum}
      PartValues ==
        {JDict(<<KEY_TEXT>>, <<x>>) : x \in TextValues}
          \cup {EmptyDictValue, JNull, JStr(R_PLAIN)}
      PartsValues ==
        {JList(<<x>>) : x \in PartValues} \cup {JList(<<>>), JNull, EmptyDictValue}
      ContentValues ==
        {JDict(<<KEY_PARTS>>, <<x>>) : x \in PartsValues}
          \cup {EmptyDictValue, JNull, JList(<<>>)}
      CandidateValues ==
        {JDict(<<KEY_CONTENT>>, <<x>>) : x \in ContentValues} \cup {EmptyDictValue, JNull}
      CandidatesValues ==
        {JList(<<x>>) : x \in CandidateValues}
          \cup {JList(<<>>), JNull, EmptyDictValue, JStr(<<>>)}
  IN  {JDict(<<KEY_CANDIDATES>>, <<x>>) : x \in CandidatesValues}
        \cup {EmptyDictValue, JNull, JList(<<>>), JStr(R_PLAIN), JNum}

Replies ==
  {ConnectionFailure}
    \cup {HttpReply(200, b) : b \in Bodies}
    \cup {HttpReply(st, EmptyDictValue) : st \in {400, 429, 500}}
    \cup {NotJsonReply(c) : c \in {"RequestException", "ValueError"}}

InitApi ==
  /\ EXCLUDED_REGULATIONS = <<>>
  /\ api_prompt \in {build_prompt(q, h, <<>>) : q \in {Q_TENDER, Q_CUACA}, h \in BOOLEAN}
  /\ api_reply \in Replies
  /\ api_result = Returned(JNull)
  /\ apc = "start"
  /\ ClassifyUnused /\ ValidateUnused /\ FileInit /\ SessionsInit /\ ChunkingUnused /\ PromptingUnused

\* GeminiService.call_api(prompt)
CallApi ==
  /\ apc = "start"
  /\ api_result' = call_api(api_prompt, api_reply)
  /\ apc' = "done"
  /\ UNCHANGED <<EXCLUDED_REGULATIONS, api_prompt, api_reply, classifyVars,
                 validateVars, fileVars, sessionVars, chunking, prompting>>

SpecApi == InitApi /\ [][CallApi]_vars

(***************************************************************************)
(* create_chunks on bounded inputs: every text of at most MaxChunk + 1      *)
(* letters, every chunk_size of 1 .. MaxChunk and every chunk_overlap of    *)
(* 0 .. MaxChunk + 1.                                                      *)
(***************************************************************************)
InitChunk ==
  /\ EXCLUDED_REGULATIONS = <<>>
  /\ \E text \in SeqsUpTo({"a", "b"}, MaxChunk + 1), size \in 1 .. MaxChunk,
        overlap \in 0 .. MaxChunk + 1 :
       chunking = [text |-> text, chunk_size |-> size, chunk_overlap |-> overlap,
                   result |-> create_chunks(<<>>, DEFAULT_CHUNK_SIZE, DEFAULT_CHUNK_OVERLAP),
                   pc |-> "start"]
  /\ ClassifyUnused /\ ValidateUnused /\ ApiUnused /\ FileInit /\ SessionsInit
  /\ PromptingUnused

\* PDFProcessor.create_chunks(text, chunk_size, chunk_overlap)
CreateChunks ==
  /\ chunking.pc = "start"
  /\ chunking' = [chunking EXCEPT
                    !.result = create_chunks(chunking.text, chunking.chunk_size,
                                             chunking.chunk_overlap),
                    !.pc = "done"]
  /\ UNCHANGED <<EXCLUDED_REGULATIONS, classifyVars, validateVars, apiVars,
                 prompting, fileVars, sessionVars>>

SpecChunk == InitChunk /\ [][CreateChunks]_vars

(***************************************************************************)
(* build_prompt on bounded inputs: every question of at most MaxPromptQLen  *)
(* letters and two example questions, both values of has_uploaded, under    *)
(* every exclusion list of ExclusionConfigs.                               *)
(***************************************************************************)
InitPrompt ==
  /\ EXCLUDED_REGULATIONS \in ExclusionConfigs
  /\ \E q \in SeqsUpTo(QChars, MaxPromptQLen) \cup {Q_TENDER, Q_CUACA}, h \in BOOLEAN :
       prompting = [question |-> q, has_uploaded |-> h,
                    prompt |-> build_prompt(<<>>, TRUE, <<>>), pc |-> "start"]
  /\ ClassifyUnused /\ ValidateUnused /\ ApiUnused /\ FileInit /\ SessionsInit
  /\ ChunkingUnused

\* GeminiService.build_prompt(question, has_uploaded)
BuildPrompt ==
  /\ prompting.pc = "start"
  /\ prompting' = [prompting EXCEPT
                     !.prompt = build_prompt(prompting.question, prompting.has_uploaded,
                                             EXCLUDED_REGULATIONS),
                     !.pc = "done"]
  /\ UNCHANGED <<EXCLUDED_REGULATIONS, classifyVars, validateVars, apiVars,
                 chunking, fileVars, sessionVars>>

SpecPrompt == InitPrompt /\ [][BuildPrompt]_vars

(***************************************************************************)
(* StateManager called from one place at a time: save_state with every     *)
(* list of at most MaxFiles names, and clear_state.                        *)
(***************************************************************************)
InitState ==
  /\ EXCLUDED_REGULATIONS = <<>>
  /\ FileInit
  /\ ClassifyUnused /\ ValidateUnused /\ ApiUnused /\ SessionsInit /\ ChunkingUnused /\ PromptingUnused

\* StateManager.save_state(new_file_names), from load_state to the end of the dump
SaveState(names) ==
  LET ld == load_state(stateFile)
  IN  /\ ld.exc = "none"
      /\ \E updated \in UpdatedLists(ld.val, names) : stateFile' = FileJson(updated)
      /\ new_file_names' = names
      /\ passed' = passed \cup Elems(names)
      /\ UNCHANGED <<EXCLUDED_REGULATIONS, classifyVars, validateVars, apiVars, sessionVars, chunking, prompting>>

\* StateManager.clear_state()
ClearState ==
  /\ stateFile' = clear_state(stateFile)
  /\ new_file_names' = <<>>
  /\ passed' = {}
  /\ UNCHANGED <<EXCLUDED_REGULATIONS, classifyVars, validateVars, apiVars, sessionVars, chunking, prompting>>

NextState ==
  \/ \E names \in SeqsUpTo(FileNames, MaxFiles) : SaveState(names)
  \/ ClearState

SpecState == InitState /\ [][NextState]_vars

(***************************************************************************)
(* The application.  A session is one browser tab running the script; all  *)
(* sessions share Config.STATE_FILE.  The Proses handler reaches the file   *)
(* three times (load_state reads it, open(..., "w") truncates it, leaving    *)
(* the with block writes the dump), and another session can run between two *)
(* of them; the other handlers reach it at most once.                       *)
(***************************************************************************)
PAGE == <<"a">>

\* The files a user can pick: one named like a catalog regulation, and one
\* that PdfReader cannot read.
PdfFiles ==
  { Pdf(N_VALID, TRUE, PAGE),
    Pdf(F_OTHER, FALSE, <<>>) }

Batches == SeqsUpTo(PdfFiles, MaxBatch) \ {<<>>}

AppQuestions == {Q_TENDER, Q_CUACA, <<"x">>}

\* An answer with a valid and one with an invalid citation, a transport
\* failure, a body without "candidates", one with "candidates": null, and one
\* with "text": null.
AnswerReply(x) ==
  HttpReply(200, JDict(<<KEY_CANDIDATES>>, <<JList(<<JDict(<<KEY_CONTENT>>,
    <<JDict(<<KEY_PARTS>>, <<JList(<<JDict(<<KEY_TEXT>>, <<x>>)>>)>>)>>)>>)>>))

AppReplies ==
  { AnswerReply(x) : x \in {JStr(R_VALID), JStr(R_INVALID), JNull} }
    \cup { ConnectionFailure,
           HttpReply(200, EmptyDictValue),
           HttpReply(200, JDict(<<KEY_CANDIDATES>>, <<JNull>>)) }

UserMessages(s) == Len(SelectSeq(messages[s], LAMBDA m : m.role = "user"))

Init ==
  /\ EXCLUDED_REGULATIONS = <<>>
  /\ FileInit
  /\ SessionsInit /\ ChunkingUnused /\ PromptingUnused
  /\ ClassifyUnused /\ ValidateUnused /\ ApiUnused

otherVars == <<EXCLUDED_REGULATIONS, classifyVars, validateVars, apiVars, chunking, prompting,
               new_file_names>>

\* render_sidebar, Proses pressed with no file chosen: st.warning
ProcessNothing(s) ==
  /\ pc[s] = "idle"
  /\ notice' = [notice EXCEPT ![s] = "warning"]
  /\ UNCHANGED <<otherVars, passed, overlapped, stateFile, pc, pending, messages, last>>

\* render_sidebar, Proses pressed with pdf_docs: extract_text, create_chunks
\* (whose chunks nothing reads), and save_state up to its open().  An exception
\* of create_chunks or load_state ends the handler in st.error.
ProcessLoad(s, pdf_docs) ==
  LET uploaded_names == [i \in 1 .. Len(pdf_docs) |-> pdf_docs[i].name]
      raw_text == extract_text(pdf_docs).text
      chunks == create_chunks(raw_text, DEFAULT_CHUNK_SIZE, DEFAULT_CHUNK_OVERLAP)
      ld == load_state(stateFile)
  IN  /\ pc[s] = "idle"
      /\ IF chunks.exc # "none" \/ ld.exc # "none"
         THEN /\ notice' = [notice EXCEPT ![s] = "error"]
              /\ UNCHANGED <<pc, pending, passed>>
         ELSE /\ \E updated \in UpdatedLists(ld.val, uploaded_names) :
                   pending' = [pending EXCEPT ![s] = updated]
              /\ pc' = [pc EXCEPT ![s] = "open"]
              /\ notice' = [notice EXCEPT ![s] = "none"]
              /\ passed' = passed \cup Elems(uploaded_names)
      /\ overlapped' = (overlapped \/ \E t \in Sessions \ {s} : pc[t] # "idle")
      /\ UNCHANGED <<otherVars, stateFile, messages, last>>

\* save_state: open(Config.STATE_FILE, "w") truncates the file
SaveOpen(s) ==
  /\ pc[s] = "open"
  /\ stateFile' = FileEmpty
  /\ pc' = [pc EXCEPT ![s] = "dump"]
  /\ UNCHANGED <<otherVars, passed, overlapped, pending, notice, messages, last>>

\* save_state: json.dump and the end of the with block write the list; then
\* st.success and st.rerun
SaveDump(s) ==
  /\ pc[s] = "dump"
  /\ stateFile' = FileJson(pending[s])
  /\ pc' = [pc EXCEPT ![s] = "idle"]
  /\ pending' = [pending EXCEPT ![s] = <<>>]
  /\ notice' = [notice EXCEPT ![s] = "success"]
  /\ UNCHANGED <<otherVars, passed, overlapped, messages, last>>

\* Reset removing the state file as well.
Reset_clearing_state(s) ==
  /\ pc[s] = "idle"
  /\ messages' = [messages EXCEPT ![s] = <<Message("assistant", CHAT_RESET)>>]
  /\ stateFile' = clear_state(stateFile)
  /\ UNCHANGED <<otherVars, passed, overlapped, pc, pending, notice, last>>

\* render_sidebar, Reset pressed
Reset(s) ==
  /\ pc[s] = "idle"
  /\ messages' = [messages EXCEPT ![s] = <<Message("assistant", CHAT_RESET)>>]
  /\ UNCHANGED <<otherVars, passed, overlapped, stateFile, pc, pending, notice, last>>

\* render_chat_interface with a question typed, after load_state (ld) and
\* process_query (done): the text of the assistant message, which is the
\* response or, when load_state or process_query raised, the error text; and
\* what the turn did.
ChatTurn(file, ld, done) ==
  IF ld.exc # "none"
  THEN [answer |-> ERROR_OCCURRED \o ld.msg,
        last |-> [NoQuery EXCEPT !.file = file.kind, !.exc = ld.exc]]
  ELSE [answer |-> IF done.run.exc # "none"
                   THEN ERROR_OCCURRED \o done.run.msg
                   ELSE FullResponse(done.run.response),
        last |-> [file |-> file.kind, exc |-> done.run.exc, context |-> done.context,
                  api_calls |-> Len(done.run.api_prompts),
                  api_ret |-> done.run.api_ret,
                  response |-> done.run.response]]

\* render_chat_interface appending no assistant message when the turn raised.
AppendTurn_dropping_on_error(s, q, turn) ==
  /\ messages' = [messages EXCEPT ![s] =
                    IF turn.last.exc # "none"
                    THEN @ \o <<Message("user", q)>>
                    ELSE @ \o <<Message("user", q), Message("assistant", turn.answer)>>]
  /\ last' = [last EXCEPT ![s] = turn.last]

\* render_chat_interface appends the user message and the assistant message.
AppendTurn(s, q, turn) ==
  /\ messages' = [messages EXCEPT ![s] =
                    @ \o <<Message("user", q), Message("assistant", turn.answer)>>]
  /\ last' = [last EXCEPT ![s] = turn.last]

\* render_chat_interface with a question typed
Ask(s, q, reply) ==
  /\ pc[s] = "idle"
  /\ AppendTurn(s, q, ChatTurn(stateFile, load_state(stateFile),
                               process_query(q, load_state(stateFile).val,
                                             EXCLUDED_REGULATIONS, reply)))
  /\ UNCHANGED <<otherVars, passed, overlapped, stateFile, pc, pending, notice>>

Step(s) ==
  \/ ProcessNothing(s)
  \/ \E pdf_docs \in Batches : ProcessLoad(s, pdf_docs)
  \/ SaveOpen(s)
  \/ SaveDump(s)
  \/ Reset(s)
  \/ \E q \in AppQuestions, reply \in AppReplies :
       UserMessages(s) < MaxQuestions /\ Ask(s, q, reply)

\* One session.
Next == Step(1)

Spec == Init /\ [][Next]_vars

\* Every session, in any interleaving, on fewer inputs.
StepConc(s) ==
  \/ \E pdf \in PdfFiles : ProcessLoad(s, <<pdf>>)
  \/ SaveOpen(s)
  \/ SaveDump(s)
  \/ Reset(s)
  \/ UserMessages(s) < MaxQuestions /\ Ask(s, Q_TENDER, AnswerReply(JStr(R_VALID)))

NextConc == \E s \in Sessions : StepConc(s)

SpecConc == Init /\ [][NextConc]_vars

\* The ingestions alone: every session pressing Proses with every batch, in
\* any interleaving of the three places where the handler reaches the file.
NextIngest ==
  \E s \in Sessions :
    \/ \E pdf_docs \in Batches : ProcessLoad(s, pdf_docs)
    \/ SaveOpen(s)
    \/ SaveDump(s)

SpecIngest == Init /\ [][NextIngest]_vars

\* The chat of one session, up to MaxChat questions between resets, while
\* another session ingests a file: the questions meet the state file absent,
\* truncated and written.
NextChat ==
  \/ \E q \in {Q_TENDER, Q_CUACA},
        reply \in {AnswerReply(JStr(R_VALID)), HttpReply(200, JDict(<<KEY_CANDIDATES>>, <<JNull>>))} :
       UserMessages(1) < MaxChat /\ Ask(1, q, reply)
  \/ Reset(1)
  \/ ProcessLoad(2, <<Pdf(N_VALID, TRUE, PAGE)>>)
  \/ SaveOpen(2)
  \/ SaveDump(2)

SpecChat == Init /\ [][NextChat]_vars
(***************************************************************************)
(* Properties of the classifier.                                           *)
(***************************************************************************)
\* Some element of the state's processed_files is a key of the catalog.
HasCatalogUpload(st) ==
  /\ st.has_key
  /\ \E i \in 1 .. Len(st.processed_files) :
       \E j \in 1 .. Len(REGULATION_STRUCTURE) :
         st.processed_files[i] = REGULATION_STRUCTURE[j].name

\* c is the lower-case letter l or its capital; any other character only itself.
SameLetter(c, l) == c = l \/ \E n \in 1 .. 26 : UPPERCASE[n] = c /\ LOWERCASE[n] = l

\* Keyword kw occurs in q at position i, letter case aside.
KeywordAt(q, i, kw) ==
  /\ i + Len(kw) - 1 <= Len(q)
  /\ \A j \in 1 .. Len(kw) : SameLetter(q[i + j - 1], kw[j])

MentionsKeyword(q) ==
  \E k \in 1 .. Len(PBJ_KEYWORDS) : \E i \in 1 .. Len(q) : KeywordAt(q, i, PBJ_KEYWORDS[k])

UpperChar(c) ==
  IF \E i \in 1 .. 26 : LOWERCASE[i] = c
  THEN UPPERCASE[CHOOSE i \in 1 .. 26 : LOWERCASE[i] = c]
  ELSE c

\* q in capitals, q in small letters, and q with the case of every letter swapped.
CaseVariants(q) ==
  { [i \in 1 .. Len(q) |-> UpperChar(q[i])],
    [i \in 1 .. Len(q) |-> LowerChar(q[i])],
    [i \in 1 .. Len(q) |-> IF UpperChar(q[i]) = q[i] THEN LowerChar(q[i]) ELSE UpperChar(q[i])] }

\* C1: whenever processed_files holds at least one catalog name, determine_context
\* returns UPLOADED_REGULATIONS, whatever the question says.
C1_UploadDominates ==
  (cpc = "done" /\ HasCatalogUpload(state)) => context = UPLOADED_REGULATIONS

\* C1 witness: a catalog name is uploaded, the question mentions no PBJ keyword,
\* and the call has returned UPLOADED_REGULATIONS.
C1_Witness ==
  /\ cpc = "done"
  /\ HasCatalogUpload(state)
  /\ question = Q_CUACA
  /\ ~MentionsKeyword(question)
  /\ context = UPLOADED_REGULATIONS

\* C2: with no catalog name among processed_files, the result is PBJ_NO_UPLOAD
\* exactly when the question contains a PBJ keyword, letter case aside, and
\* NON_PBJ otherwise; a question that differs only in letter case gets the same
\* result.
C2_KeywordDecides ==
  (cpc = "done" /\ ~HasCatalogUpload(state)) =>
    /\ context = PBJ_NO_UPLOAD <=> MentionsKeyword(question)
    /\ context = NON_PBJ <=> ~MentionsKeyword(question)
    /\ \A q2 \in CaseVariants(question) : determine_context(q2, state) = context

\* C2 witness: no catalog upload, the keyword written in capitals, PBJ_NO_UPLOAD.
C2_Witness ==
  /\ cpc = "done"
  /\ ~HasCatalogUpload(state)
  /\ question = Q_TENDER_UPPER
  /\ context = PBJ_NO_UPLOAD

\* The position of a catalog name in the catalog.
CatalogPosition(r) == CHOOSE i \in 1 .. Len(CatalogNames) : CatalogNames[i] = r

\* C18: get_uploaded_regulations returns the catalog names that are elements
\* of processed_files, and only those, in catalog order and once each; a file
\* name that merely contains a catalog name adds nothing.
C18_ExactNamesInOrder ==
  cpc = "done" =>
    /\ \A i \in 1 .. Len(uploaded) :
         InCatalog(uploaded[i]) /\ uploaded[i] \in Elems(GetProcessedFiles(state))
    /\ \A r \in Elems(GetProcessedFiles(state)) : InCatalog(r) => r \in Elems(uploaded)
    /\ \A i, j \in 1 .. Len(uploaded) :
         i < j => CatalogPosition(uploaded[i]) < CatalogPosition(uploaded[j])
    /\ context = UPLOADED_REGULATIONS <=> uploaded # <<>>

\* C18 witness: processed_files holds the eighteenth catalog name before the
\* first; the list returned has the first before the eighteenth.
C18_Witness ==
  /\ cpc = "done"
  /\ GetProcessedFiles(state) = <<CatalogNames[18], CatalogNames[1]>>
  /\ uploaded = <<CatalogNames[1], CatalogNames[18]>>
  /\ context = UPLOADED_REGULATIONS

(***************************************************************************)
(* Properties of StateManager.                                             *)
(***************************************************************************)
\* C3: with save_state and clear_state called one at a time, the persisted
\* list holds exactly the names passed to save_state since the file was last
\* absent, each of them once.
C3_UnionOnce ==
  stateFile.kind = "json" =>
    /\ Elems(stateFile.processed_files) = passed
    /\ Len(stateFile.processed_files) = Cardinality(passed)

\* C3 witness: a call that passed one name twice, after which the file holds
\* that name once and a name of an earlier call next to it.
C3_Witness ==
  /\ stateFile.kind = "json"
  /\ Len(new_file_names) = 2
  /\ new_file_names[1] = new_file_names[2]
  /\ Len(stateFile.processed_files) = 2
  /\ \E n \in Elems(stateFile.processed_files) : n \notin Elems(new_file_names)

(***************************************************************************)
(* Properties of the validator.                                            *)
(***************************************************************************)
\* The call's regulation is a catalog key with a non-empty pasal list.
HasPasalList(c) == InCatalog(c.reg) /\ ValidList(c.reg) # {}

IsExcluded(name) == \E k \in 1 .. Len(EXCLUDED_REGULATIONS) : EXCLUDED_REGULATIONS[k] = name

\* What C4 says of one citation: kept as "<r>, Pasal <n>" exactly when n is valid,
\* turned into "<r> (pasal tidak dapat diverifikasi)" exactly when it is not, and
\* that text is in the output.
KeptIffValid(c) ==
  LET r == c.reg
      n == c.pasal
      V == ValidList(r)
  IN  /\ c.out = r \o COMMA_PASAL \o IntToStr(n) <=> n \in V
      /\ c.out = r \o UNVERIFIED_NOTE <=> n \notin V
      /\ StrContains(cleaned, c.out)

\* C4 as claimed: every citation of a catalog regulation with a non-empty pasal
\* list is left as "<r>, Pasal <n>" iff n is in the list and becomes
\* "<r> (pasal tidak dapat diverifikasi)" iff it is not.
C4_AsClaimed ==
  vpc = "done" =>
    \A k \in 1 .. Len(calls) : HasPasalList(calls[k]) => KeptIffValid(calls[k])

\* C4, amended: the same for every such regulation that is not in the exclusion list.
C4_KeptIffValid ==
  vpc = "done" =>
    \A k \in 1 .. Len(calls) :
      (HasPasalList(calls[k]) /\ ~IsExcluded(calls[k].reg)) => KeptIffValid(calls[k])

\* C4 witness: one text with an out-of-range citation rewritten and an in-range
\* citation of the same regulation left as it was.
C4_Witness ==
  /\ vpc = "done"
  /\ Len(calls) = 2
  /\ \A k \in 1 .. 2 : calls[k].reg = N_VALID /\ ~IsExcluded(N_VALID)
  /\ calls[1].pasal \notin ValidList(N_VALID)
  /\ calls[1].out = N_VALID \o UNVERIFIED_NOTE
  /\ calls[2].pasal \in ValidList(N_VALID)
  /\ calls[2].out = calls[2].match
  /\ cleaned = calls[1].out \o calls[2].out

\* C5: every literal occurrence of an excluded name in the output is directly
\* followed by " (dikecualikan dari penggunaan)".
C5_ExcludedMarked ==
  vpc = "done" =>
    \A k \in 1 .. Len(EXCLUDED_REGULATIONS) :
      \A i \in 1 .. Len(cleaned) :
        StartsWithAt(cleaned, i, EXCLUDED_REGULATIONS[k]) =>
          StartsWithAt(cleaned, i + Len(EXCLUDED_REGULATIONS[k]), EXCLUDED_NOTE)

\* C5 witness: the excluded name once inside a citation and once outside of one.
C5_Witness ==
  /\ vpc = "done"
  /\ IsExcluded(N_EXCLUDABLE)
  /\ response_text = N_EXCLUDABLE \o COMMA_PASAL \o <<"5">> \o N_EXCLUDABLE
  /\ Len(calls) = 1
  /\ StrContains(cleaned, N_EXCLUDABLE \o EXCLUDED_NOTE)

\* Position i of the input lies in a citation match or in an occurrence of an
\* excluded name.
Covered(i) ==
  \/ \E k \in 1 .. Len(calls) : calls[k].start <= i /\ i <= calls[k].stop
  \/ \E k \in 1 .. Len(EXCLUDED_REGULATIONS) :
       \E j \in (i - Len(EXCLUDED_REGULATIONS[k]) + 1) .. i :
         StartsWithAt(response_text, j, EXCLUDED_REGULATIONS[k])

\* The characters of the input outside every citation match and excluded name.
UncoveredFrom(i) ==
  LET js == SelectSeq([j \in 1 .. Len(response_text) - i + 1 |-> j + i - 1],
                      LAMBDA j : ~Covered(j))
  IN  [k \in 1 .. Len(js) |-> response_text[js[k]]]

\* a[i..] can be read off b[j..] from left to right, skipping characters of b.
RECURSIVE IsSubsequenceFrom(_, _, _, _)
IsSubsequenceFrom(a, i, b, j) ==
  IF i > Len(a) THEN TRUE
  ELSE LET k == FindChar(b, j, a[i])
       IN  k # 0 /\ IsSubsequenceFrom(a, i + 1, b, k + 1)

MentionsExcluded(s) ==
  \E k \in 1 .. Len(EXCLUDED_REGULATIONS) : StrContains(s, EXCLUDED_REGULATIONS[k])

\* C10 as claimed: the characters outside citation matches and excluded names are
\* kept in order, and an input without a citation match comes out unchanged.
C10_AsClaimed ==
  vpc = "done" =>
    /\ IsSubsequenceFrom(UncoveredFrom(1), 1, cleaned, 1)
    /\ calls = <<>> => cleaned = response_text

\* C10, amended: the characters outside citation matches and excluded names are
\* kept in order, and an input with neither a citation match nor an excluded
\* name comes out unchanged.
C10_OnlyCitationsChange ==
  vpc = "done" =>
    /\ IsSubsequenceFrom(UncoveredFrom(1), 1, cleaned, 1)
    /\ (calls = <<>> /\ ~MentionsExcluded(response_text)) => cleaned = response_text

\* C10 witness: a citation is rewritten and the filler around it is still there.
C10_Witness ==
  /\ vpc = "done"
  /\ Len(calls) = 1
  /\ calls[1].out # calls[1].match
  /\ UncoveredFrom(1) = <<" ","b","e","r","l","a","k","u","."," ">>
  /\ cleaned = calls[1].out \o UncoveredFrom(1)

\* The call's name, as replacer reads it, is neither excluded nor a catalog key.
IsUnknown(c) == ~IsExcluded(c.reg) /\ ~InCatalog(c.reg)

\* C11 as claimed: every citation of a name that is neither excluded nor in the
\* catalog is replaced by "<name> (pasal tidak dapat diverifikasi)", which is
\* then in the output.
C11_AsClaimed ==
  vpc = "done" =>
    \A k \in 1 .. Len(calls) :
      IsUnknown(calls[k]) =>
        /\ calls[k].out = calls[k].reg \o UNVERIFIED_NOTE
        /\ StrContains(cleaned, calls[k].out)

\* C11, amended: replacer returns "<name> (pasal tidak dapat diverifikasi)" for
\* every such citation, and that text is in the output when the name contains
\* no excluded name.
C11_UnknownUnverified ==
  vpc = "done" =>
    \A k \in 1 .. Len(calls) :
      IsUnknown(calls[k]) =>
        /\ calls[k].out = calls[k].reg \o UNVERIFIED_NOTE
        /\ ~MentionsExcluded(calls[k].reg) => StrContains(cleaned, calls[k].out)

\* C11 witness: "PP 7" cited with a pasal number that some regulation has and
\* with one that none has, both citations replaced.
C11_Witness ==
  /\ vpc = "done"
  /\ Len(calls) = 2
  /\ \A k \in 1 .. 2 : calls[k].reg = N_UNKNOWN /\ IsUnknown(calls[k])
  /\ calls[1].pasal = 5
  /\ calls[2].pasal = 133
  /\ cleaned = N_UNKNOWN \o UNVERIFIED_NOTE \o N_UNKNOWN \o UNVERIFIED_NOTE

\* The text given to validate is the one citation that call k replaced.
WholeText(k) ==
  /\ Len(calls) = 1
  /\ k = 1
  /\ calls[k].start = 1
  /\ calls[k].stop = Len(response_text)

\* C12: a citation of a catalog regulation that is not excluded and lists no
\* pasal is replaced by the bare name, whatever the number: no pasal number and
\* no annotation.
C12_EmptyListBareName ==
  vpc = "done" =>
    \A k \in 1 .. Len(calls) :
      (~IsExcluded(calls[k].reg) /\ InCatalog(calls[k].reg)
         /\ ValidList(calls[k].reg) = {}) =>
        /\ calls[k].out = calls[k].reg
        /\ StrContains(cleaned, calls[k].reg)
        /\ WholeText(k) => cleaned = calls[k].reg

\* C12 witness: the text is one citation of a regulation without a pasal list,
\* and the output is its name alone.
C12_Witness ==
  /\ vpc = "done"
  /\ response_text = N_NO_PASAL \o COMMA_PASAL \o <<"1", "3", "3">>
  /\ WholeText(1)
  /\ calls[1].reg = N_NO_PASAL
  /\ ValidList(N_NO_PASAL) = {}
  /\ ~IsExcluded(N_NO_PASAL)
  /\ cleaned = N_NO_PASAL

\* C17: a citation of a catalog regulation that is excluded is replaced by
\* "<name> (dikecualikan dari penggunaan)" also when its pasal number is in the
\* regulation's list; the output holds that text and nowhere "<name>, Pasal".
C17_ExclusionFirst ==
  vpc = "done" =>
    \A k \in 1 .. Len(calls) :
      (IsExcluded(calls[k].reg) /\ InCatalog(calls[k].reg)) =>
        /\ calls[k].out = calls[k].reg \o EXCLUDED_NOTE
        /\ StrContains(cleaned, calls[k].out)
        /\ ~StrContains(cleaned, calls[k].reg \o COMMA_PASAL)

\* C17 witness: an excluded catalog regulation cited with a pasal number of
\* its list; the output names it with the exclusion note, which the marking
\* pass has repeated, and without the pasal.
C17_Witness ==
  /\ vpc = "done"
  /\ response_text = N_EXCLUDABLE \o COMMA_PASAL \o <<"5">>
  /\ WholeText(1)
  /\ IsExcluded(N_EXCLUDABLE)
  /\ InCatalog(N_EXCLUDABLE)
  /\ calls[1].pasal \in ValidList(N_EXCLUDABLE)
  /\ calls[1].out = N_EXCLUDABLE \o EXCLUDED_NOTE
  /\ cleaned = N_EXCLUDABLE \o EXCLUDED_NOTE \o EXCLUDED_NOTE
  /\ ~StrContains(cleaned, PASAL)

(***************************************************************************)
(* Properties of GeminiService.call_api.                                   *)
(***************************************************************************)
\* A body of the shape call_api subscripts: an object whose "candidates" is a
\* list that starts with an object whose "content" is an object whose "parts"
\* is a list that starts with an object whose "text" is a str.
HasKey(x, key) == x.t = "dict" /\ \E i \in 1 .. Len(x.k) : x.k[i] = key
ValueOf(x, key) == x.v[CHOOSE i \in 1 .. Len(x.k) : x.k[i] = key]
StartsWithDict(x) == x.t = "list" /\ x.v # <<>> /\ x.v[1].t = "dict"

ExpectedShape(data) ==
  /\ HasKey(data, KEY_CANDIDATES)
  /\ StartsWithDict(ValueOf(data, KEY_CANDIDATES))
  /\ HasKey(ValueOf(data, KEY_CANDIDATES).v[1], KEY_CONTENT)
  /\ HasKey(ValueOf(ValueOf(data, KEY_CANDIDATES).v[1], KEY_CONTENT), KEY_PARTS)
  /\ StartsWithDict(ValueOf(ValueOf(ValueOf(data, KEY_CANDIDATES).v[1], KEY_CONTENT), KEY_PARTS))
  /\ HasKey(ValueOf(ValueOf(ValueOf(data, KEY_CANDIDATES).v[1], KEY_CONTENT), KEY_PARTS).v[1],
            KEY_TEXT)
  /\ ValueOf(ValueOf(ValueOf(ValueOf(data, KEY_CANDIDATES).v[1], KEY_CONTENT), KEY_PARTS).v[1],
             KEY_TEXT).t = "str"

TransportOrStatusFailure(reply) == reply.transport = "error" \/ reply.status >= 400

FormatFailure(reply) ==
  /\ ~TransportOrStatusFailure(reply)
  /\ ~reply.is_json \/ ~ExpectedShape(reply.json)

\* C6: call_api raises nothing and returns a str; after a transport or status
\* failure the str is the API error message, after a body of an unexpected
\* shape it is the format error message.
C6_AsClaimed ==
  apc = "done" =>
    /\ api_result.exc = "none"
    /\ api_result.val.t = "str"
    /\ TransportOrStatusFailure(api_reply) => StartsWithAt(api_result.val.s, 1, API_ERROR)
    /\ FormatFailure(api_reply) => StartsWithAt(api_result.val.s, 1, FORMAT_ERROR)

(***************************************************************************)
(* Properties of the chat handler and ResponseHandler.process_query.       *)
(***************************************************************************)
\* C7: a question asked while the state file is absent or is not JSON is
\* answered without an exception, and classified PBJ_NO_UPLOAD or NON_PBJ.
C7_AsClaimed ==
  \A s \in Sessions :
    last[s].file \in {"absent", "empty"} =>
      /\ last[s].exc = "none"
      /\ last[s].context \in {PBJ_NO_UPLOAD, NON_PBJ}

\* C8: when process_query returns, source_type is "regulation", "external" or
\* "none" exactly for the context UPLOADED_REGULATIONS, PBJ_NO_UPLOAD or
\* NON_PBJ; for UPLOADED_REGULATIONS call_api was called and output_text is
\* validate applied to the str it returned.
C8_EnvelopeFollowsContext ==
  \A s \in Sessions :
    last[s].exc = "none" =>
      /\ last[s].response.source_type = "regulation" <=> last[s].context = UPLOADED_REGULATIONS
      /\ last[s].response.source_type = "external" <=> last[s].context = PBJ_NO_UPLOAD
      /\ last[s].response.source_type = "none" <=> last[s].context = NON_PBJ
      /\ last[s].context = UPLOADED_REGULATIONS =>
            /\ last[s].api_calls >= 1
            /\ last[s].api_ret.t = "str"
            /\ last[s].response.output_text = validate(last[s].api_ret.s, EXCLUDED_REGULATIONS)

\* C8 witness: a query answered from an uploaded regulation, where the
\* validator changed the text call_api returned.
C8_Witness ==
  \E s \in Sessions :
    /\ last[s].exc = "none"
    /\ last[s].context = UPLOADED_REGULATIONS
    /\ last[s].response.source_type = "regulation"
    /\ last[s].api_ret = JStr(R_INVALID)
    /\ last[s].response.output_text # R_INVALID
    /\ StrContains(last[s].response.output_text, UNVERIFIED_NOTE)

\* C9: a call of process_query calls call_api at most once.
C9_SingleAttempt == \A s \in Sessions : last[s].api_calls <= 1

\* C9 witness: a query whose one call of call_api failed and returned its error
\* text.
C9_Witness ==
  \E s \in Sessions :
    /\ last[s].exc = "none"
    /\ last[s].api_calls = 1
    /\ last[s].api_ret.t = "str"
    /\ StartsWithAt(last[s].api_ret.s, 1, API_ERROR)

(***************************************************************************)
(* Properties of GeminiService.build_prompt.                               *)
(***************************************************************************)
\* text.split("\n") from index i on
RECURSIVE LinesFrom(_, _)
LinesFrom(s, i) ==
  LET j == FindChar(s, i, "\n")
  IN  IF j = 0 THEN <<SubSeq(s, i, Len(s))>>
      ELSE <<SubSeq(s, i, j - 1)>> \o LinesFrom(s, j + 1)

\* The items of the numbered list of a prompt.
ListedLines(prompt) ==
  IF prompt.regulations_text = <<>> THEN <<>> ELSE LinesFrom(prompt.regulations_text, 1)

\* The catalog positions of the regulations that are not excluded, and the
\* number of such positions up to i.
KeptPositions == {i \in 1 .. Len(CatalogNames) : ~IsExcluded(CatalogNames[i])}
RankOf(i) == Cardinality({j \in KeptPositions : j <= i})

\* C16: the numbered list of the prompt has one item per catalog regulation
\* that is not excluded, in catalog order, numbered from 1 without gaps, and
\* no item for an excluded one; the disallow clause holds every excluded name,
\* and "Tidak ada" when there is none.
C16_PromptListsIncluded ==
  prompting.pc = "done" =>
    /\ Len(ListedLines(prompting.prompt)) = Cardinality(KeptPositions)
    /\ \A i \in KeptPositions :
         ListedLines(prompting.prompt)[RankOf(i)]
           = IntToStr(RankOf(i)) \o <<".", " ">> \o CatalogNames[i]
    /\ \A k \in 1 .. Len(ListedLines(prompting.prompt)), e \in 1 .. Len(EXCLUDED_REGULATIONS) :
         ~StrContains(ListedLines(prompting.prompt)[k], EXCLUDED_REGULATIONS[e])
    /\ EXCLUDED_REGULATIONS = <<>> => prompting.prompt.excluded_text = TIDAK_ADA
    /\ EXCLUDED_REGULATIONS # <<>> =>
         /\ prompting.prompt.excluded_text # TIDAK_ADA
         /\ \A e \in 1 .. Len(EXCLUDED_REGULATIONS) :
              StrContains(prompting.prompt.excluded_text, EXCLUDED_REGULATIONS[e])

\* C16 witness: a prompt built with the second and third catalog regulation
\* excluded: the list goes on with the fourth as number 2, and the disallow
\* clause names the two.
C16_Witness ==
  /\ prompting.pc = "done"
  /\ EXCLUDED_REGULATIONS = <<CatalogNames[2], CatalogNames[3]>>
  /\ Len(ListedLines(prompting.prompt)) = Len(CatalogNames) - 2
  /\ ListedLines(prompting.prompt)[2] = <<"2", ".", " ">> \o CatalogNames[4]
  /\ prompting.prompt.excluded_text = CatalogNames[2] \o <<",", " ">> \o CatalogNames[3]

(***************************************************************************)
(* Properties of the ingestion: render_sidebar's Proses and save_state.    *)
(***************************************************************************)
\* The names app_state.json holds.
Persisted == IF stateFile.kind = "json" THEN Elems(stateFile.processed_files) ELSE {}

\* C13 as claimed: the persisted processed_files never records a document
\* whose processing failed (a file PdfReader cannot read).
C13_AsClaimed == \A pdf \in PdfFiles : ~pdf.readable => pdf.name \notin Persisted

\* Every session is outside save_state.
AllIdle == \A s \in Sessions : pc[s] = "idle"

\* C14: while no call of save_state has begun during another session's call,
\* the file holds, between calls, every name passed to save_state: a lost
\* update is unreachable when the calls run one after the other.
C14_SequentialKeepsAll ==
  (~overlapped /\ AllIdle) =>
     \/ stateFile = FileAbsent /\ passed = {}
     \/ stateFile.kind = "json" /\ Persisted = passed

\* C14 witness: a lost update.  Two calls of save_state overlapped, both have
\* ended with "Berhasil diproses!", and the file lacks a name that was passed.
C14_Witness ==
  /\ overlapped
  /\ AllIdle
  /\ \A s \in Sessions : notice[s] = "success"
  /\ stateFile.kind = "json"
  /\ passed = {N_VALID, F_OTHER}
  /\ Cardinality(Persisted) = 1

(***************************************************************************)
(* Properties of PDFProcessor.create_chunks.                               *)
(***************************************************************************)
\* C15 as claimed: with a positive chunk_size and chunk_overlap >= chunk_size,
\* the equal pair included, create_chunks raises and returns no chunks.
C15_AsClaimed ==
  (chunking.pc = "done" /\ chunking.chunk_size > 0
     /\ chunking.chunk_overlap >= chunking.chunk_size) =>
    chunking.result.exc # "none"

(***************************************************************************)
(* Properties of the NON_PBJ path of process_query.                        *)
(***************************************************************************)
\* C19: a query classified NON_PBJ builds and sends no prompt and raises
\* nothing; its response is the fixed refusal, with the fixed note and an empty
\* warning, whatever the question, and the chat shows it until it is reset.  A
\* prompt is sent only when the context is UPLOADED_REGULATIONS or
\* PBJ_NO_UPLOAD.
C19_NonPbjFixed ==
  \A s \in Sessions :
    /\ last[s].context = NON_PBJ =>
         /\ last[s].exc = "none"
         /\ last[s].api_calls = 0
         /\ last[s].api_ret = JNull
         /\ last[s].response = ResponseData(TEXT_NON_PBJ, NOTE_NON_PBJ, <<>>, "none")
         /\ Len(messages[s]) >= 3 =>
              messages[s][Len(messages[s])].content = TEXT_NON_PBJ \o NOTE_MARK \o NOTE_NON_PBJ
    /\ last[s].api_calls > 0 => last[s].context \in {UPLOADED_REGULATIONS, PBJ_NO_UPLOAD}

\* C19 witness: "x" asked with an unreadable notulen.pdf as the only processed
\* file, answered with the refusal.
C19_Witness ==
  \E s \in Sessions :
    /\ Persisted = {F_OTHER}
    /\ Len(messages[s]) = 3
    /\ messages[s][2] = Message("user", <<"x">>)
    /\ last[s].context = NON_PBJ
    /\ last[s].api_calls = 0
    /\ last[s].response.output_text = TEXT_NON_PBJ
    /\ last[s].response.warning = <<>>

(***************************************************************************)
(* Properties of validate applied to its own output.                       *)
(***************************************************************************)
\* C20 as claimed: validate is idempotent, under every exclusion list:
\* validating the validated text again changes nothing.
C20_AsClaimed ==
  vpc = "done" => validate(cleaned, EXCLUDED_REGULATIONS) = cleaned

(***************************************************************************)
(* Properties of the chat history.                                         *)
(***************************************************************************)
\* A history: the opening assistant message, then user and assistant messages
\* in turn.
IsPairs(h) ==
  /\ Len(h) % 2 = 1
  /\ h[1] \in {Message("assistant", WELCOME), Message("assistant", CHAT_RESET)}
  /\ \A i \in 2 .. Len(h) : h[i].role = (IF i % 2 = 0 THEN "user" ELSE "assistant")

\* What a step does to the history of session s: nothing, the reset, or one
\* user message and one assistant message appended, the assistant message
\* being the error text when the turn raised and the full response otherwise.
HistoryStep(s) ==
  \/ messages'[s] = messages[s]
  \/ messages'[s] = <<Message("assistant", CHAT_RESET)>>
  \/ /\ Len(messages'[s]) = Len(messages[s]) + 2
     /\ SubSeq(messages'[s], 1, Len(messages[s])) = messages[s]
     /\ messages'[s][Len(messages[s]) + 1].role = "user"
     /\ messages'[s][Len(messages[s]) + 2].role = "assistant"
     /\ last'[s].exc \notin {"", "none"} =>
          StartsWithAt(messages'[s][Len(messages[s]) + 2].content, 1, ERROR_OCCURRED)
     /\ last'[s].exc = "none" =>
          messages'[s][Len(messages[s]) + 2].content = FullResponse(last'[s].response)

ChatFrame(s) ==
  messages'[s] # messages[s] =>
    /\ stateFile' = stateFile
    /\ passed' = passed
    /\ pc' = pc
    /\ pending' = pending
    /\ Len(messages'[s]) <= Len(messages[s]) =>
         /\ messages'[s] = <<Message("assistant", CHAT_RESET)>>
         /\ last' = last
         /\ notice' = notice

\* C22: a question and Reset leave app_state.json as it is, Reset replacing
\* the history by one assistant message and nothing else; and between the
\* runs of the handlers of one session the file holds every name ever passed
\* to save_state, so the persisted set never shrinks.
C22_ChatLeavesUploads ==
  /\ [](pc[1] = "idle" =>
          \/ stateFile = FileAbsent /\ passed = {}
          \/ stateFile.kind = "json" /\ Persisted = passed)
  /\ [][passed \subseteq passed' /\ \A s \in Sessions : ChatFrame(s)]_vars

\* C22 witness: a file was processed, a question was answered from it, and
\* Reset was pressed: the history is the reset message and the file still
\* holds the name.
C22_Witness ==
  /\ pc[1] = "idle"
  /\ messages[1] = <<Message("assistant", CHAT_RESET)>>
  /\ last[1].context = UPLOADED_REGULATIONS
  /\ stateFile = FileJson(<<N_VALID>>)
  /\ passed = {N_VALID}
====
